---------------------------- MODULE Spec2Model ----------------------------
(***************************************************************************)
(* A model of the lambda-calculus kernel of mdickinson/church:             *)
(*   church/expr.py          Parameter, Expr (flatten, bitstring, __eq__), *)
(*                           FunctionExpr.__call__, bind, unbind           *)
(*   church/lambda_parser.py the raw tree, tokenize, TokenStream, SMParser *)
(* Python objects are records with a "type" field; an exception that       *)
(* leaves a function is the record Exception(exc, args).  A Parameter is   *)
(* an object compared by identity: its identity is the field id, drawn     *)
(* from the allocation counter nparams.                                    *)
(***************************************************************************)
EXTENDS Integers, Sequences, FiniteSets, TLC

(***************************************************************************)
(* Bounds of the model.                                                    *)
(***************************************************************************)
\* Largest number of nodes of a raw tree given to bind as an input.
MaxNodes == 5
\* Largest number of Exprs the session keeps for later calls.
MaxExprs == 2
\* Largest number of tokens of a text given to parse as an input.
MaxTokens == 6
\* Largest number of tokens of a text whose parse is followed to its end.
MaxTokensLive == 4
\* Largest number of characters of a text given to tokenize as an input.
MaxChars == 4
\* Largest number of calls of next() on a generator that has finished.
MaxExhausted == 1
\* Largest number of nodes of a raw tree whose Expr is traversed by several
\* flatten generators at once.
MaxWalked == 4
\* Largest number of flatten generators that are live at once.
MaxTraversals == 2

\* The names the raw input trees are written with.
InputNames == {"x", "y"}

(***************************************************************************)
(* Python values.                                                          *)
(***************************************************************************)
None == [type |-> "None"]

Exception(exc, args) == [type |-> "Exception", exc |-> exc, args |-> args]

IsException(v) == v.type = "Exception"

\* next() on a generator that has returned or raised.
StopIteration == Exception("StopIteration", <<>>)

\* A str result, wrapped so that it can be told from an Exception.
Str(s) == [type |-> "str", value |-> s]

RECURSIVE reversed(_)
reversed(s) == IF s = <<>> THEN <<>> ELSE Append(reversed(Tail(s)), Head(s))

\* ''.join(pieces)
RECURSIVE join(_)
join(pieces) == IF pieces = <<>> THEN "" ELSE Head(pieces) \o join(Tail(pieces))

\* s * n for a str s
RECURSIVE repeat(_, _)
repeat(s, n) == IF n <= 0 THEN "" ELSE s \o repeat(s, n - 1)

\* A dict is a function on its set of keys.
EmptyDict == [k \in {} |-> None]

DictSet(d, k, v) == [q \in DOMAIN d \cup {k} |-> IF q = k THEN v ELSE d[q]]

DictDel(d, k) == [q \in DOMAIN d \ {k} |-> d[q]]

DictLen(d) == Cardinality(DOMAIN d)

(***************************************************************************)
(* The raw tree (lambda_parser.Name, Apply, Function; church.ast has the   *)
(* same three constructors).                                               *)
(***************************************************************************)
Name(name) == [type |-> "Name", name |-> name]

Apply(function, argument) ==
    [type |-> "Apply", function |-> function, argument |-> argument]

Function(name, body) == [type |-> "Function", name |-> name, body |-> body]

(***************************************************************************)
(* church.ast's traversal of a raw tree: the events NAME, OPEN_FUNCTION,   *)
(* CLOSE_FUNCTION, OPEN_APPLY, CLOSE_APPLY with a payload, in pre-order    *)
(* with close markers.  church/ast.py is not among the sources; this is    *)
(* the event interface the specification fixes.                            *)
(***************************************************************************)
RECURSIVE AstFlatten(_)
AstFlatten(ast) ==
    CASE ast.type = "Name" ->
            << [action |-> "NAME", arg |-> ast.name] >>
      [] ast.type = "Function" ->
            << [action |-> "OPEN_FUNCTION", arg |-> ast.name] >>
            \o AstFlatten(ast.body)
            \o << [action |-> "CLOSE_FUNCTION", arg |-> ast.name] >>
      [] ast.type = "Apply" ->
            << [action |-> "OPEN_APPLY", arg |-> None] >>
            \o AstFlatten(ast.function)
            \o AstFlatten(ast.argument)
            \o << [action |-> "CLOSE_APPLY", arg |-> None] >>

(***************************************************************************)
(* expr.py: Parameter and the three Expr classes.                          *)
(***************************************************************************)
\* Parameter(name): a new object; id is its identity.
Parameter(id, name) == [type |-> "Parameter", id |-> id, name |-> name]

ApplyExpr(function, argument) ==
    [type |-> "ApplyExpr", function |-> function, argument |-> argument]

FunctionExpr(parameter, body) ==
    [type |-> "FunctionExpr", parameter |-> parameter, body |-> body]

ParameterReference(parameter) ==
    [type |-> "ParameterReference", parameter |-> parameter]

\* Expr._pieces of the three classes: what flatten is to do for a node.
pieces(e) ==
    CASE e.type = "ApplyExpr" ->
            << [action |-> "YIELD", arg |-> [piece |-> "APPLY", arg |-> None]],
               [action |-> "PROCESS", arg |-> e.function],
               [action |-> "PROCESS", arg |-> e.argument],
               [action |-> "YIELD",
                arg |-> [piece |-> "CLOSE_APPLY", arg |-> None]] >>
      [] e.type = "FunctionExpr" ->
            << [action |-> "YIELD",
                arg |-> [piece |-> "FUNCTION", arg |-> e.parameter]],
               [action |-> "PROCESS", arg |-> e.body],
               [action |-> "YIELD",
                arg |-> [piece |-> "CLOSE_FUNCTION", arg |-> e.parameter]] >>
      [] e.type = "ParameterReference" ->
            << [action |-> "YIELD",
                arg |-> [piece |-> "NAME", arg |-> e.parameter]] >>

\* One turn of flatten's while loop on the work stack to_do: the work stack
\* after it and the event it yields, if any.
flatten_step(to_do) ==
    LET top  == to_do[Len(to_do)]
        rest == SubSeq(to_do, 1, Len(to_do) - 1)
    IN  IF top.action = "PROCESS"
        THEN [to_do |-> rest \o reversed(pieces(top.arg)), yielded |-> <<>>]
        ELSE [to_do |-> rest, yielded |-> << top.arg >>]

RECURSIVE flatten_loop(_, _)
flatten_loop(to_do, events) ==
    IF to_do = <<>>
    THEN events
    ELSE LET s == flatten_step(to_do)
         IN  flatten_loop(s.to_do, events \o s.yielded)

\* Expr.flatten: the events of e, in the order the generator yields them.
flatten(e) == flatten_loop(<< [action |-> "PROCESS", arg |-> e] >>, <<>>)

\* self.flatten(): the generator a call of flatten returns, which has not run
\* yet.  Its frame holds the work stack to_do, a local of the call.
flatten_call(self) ==
    [self |-> self, to_do |-> << [action |-> "PROCESS", arg |-> self] >>]

\* next() on the generator of a flatten call: the while loop runs to its next
\* yield, or ends, and the generator raises StopIteration.
RECURSIVE flatten_next(_)
flatten_next(g) ==
    IF g.to_do = <<>>
    THEN [event |-> StopIteration, gen |-> g]
    ELSE LET s == flatten_step(g.to_do)
             h == [g EXCEPT !.to_do = s.to_do]
         IN  IF s.yielded = <<>>
             THEN flatten_next(h)
             ELSE [event |-> s.yielded[1], gen |-> h]

\* next() on the generator gens[i], one of several that are live, with
\* every generator's work stack in the frame of the generator that holds
\* gens[1]'s.
flatten_resume_shared(gens, i) ==
    LET n == flatten_next([gens[i] EXCEPT !.to_do = gens[1].to_do])
    IN  [event |-> n.event,
         gens |-> [j \in DOMAIN gens |->
                        [gens[j] EXCEPT !.to_do = n.gen.to_do]]]

\* next() on the generator gens[i], one of several that are live: only its
\* own frame changes.
flatten_resume(gens, i) ==
    LET n == flatten_next(gens[i])
    IN  [event |-> n.event, gens |-> [gens EXCEPT ![i] = n.gen]]

(***************************************************************************)
(* Expr.bitstring and Expr.__eq__.                                         *)
(***************************************************************************)
\* A variant of de_bruijn_index: the binding is found by the display name of
\* the Parameter (the outermost open binder with that name), not by the
\* Parameter itself.
de_bruijn_index_by_name(bindings, arg) ==
    LET same == {q \in DOMAIN bindings : q.name = arg.name}
        outermost == CHOOSE q \in same : \A r \in same : bindings[q] <= bindings[r]
    IN  DictLen(bindings) - 1 - bindings[outermost]

\* The level of the binder, counted from the outermost one.
de_bruijn_level(bindings, arg) == bindings[arg]

\* index = len(bindings) - 1 - bindings[arg]
de_bruijn_index(bindings, arg) == DictLen(bindings) - 1 - bindings[arg]

\* The body of bitstring's for loop, on one event.
bitstring_step(st, ev) ==
    CASE ev.piece = "APPLY" ->
            [st EXCEPT !.bits = Append(@, "01")]
      [] ev.piece = "FUNCTION" ->
            IF ev.arg \in DOMAIN st.bindings
            THEN [st EXCEPT !.bits = Append(@, "00"),
                            !.exc = Exception("AssertionError", <<>>)]
            ELSE [st EXCEPT !.bits = Append(@, "00"),
                            !.bindings = DictSet(@, ev.arg, DictLen(@))]
      [] ev.piece = "CLOSE_FUNCTION" ->
            IF ev.arg \notin DOMAIN st.bindings
            THEN [st EXCEPT !.exc = Exception("KeyError", <<ev.arg>>)]
            ELSE LET level == st.bindings[ev.arg]
                     popped == DictDel(st.bindings, ev.arg)
                 IN  IF level = DictLen(popped)
                     THEN [st EXCEPT !.bindings = popped]
                     ELSE [st EXCEPT !.bindings = popped,
                                     !.exc = Exception("AssertionError", <<>>)]
      [] ev.piece = "NAME" ->
            IF ev.arg \notin DOMAIN st.bindings
            THEN [st EXCEPT !.exc = Exception("KeyError", <<ev.arg>>)]
            ELSE LET index == de_bruijn_index(st.bindings, ev.arg)
                 IN  [st EXCEPT
                        !.bits = @ \o << "1", repeat("1", index), "0" >>]
      [] OTHER -> st

RECURSIVE bitstring_loop(_, _, _)
bitstring_loop(events, i, st) ==
    IF i > Len(events) \/ st.exc /= None
    THEN st
    ELSE bitstring_loop(events, i + 1, bitstring_step(st, events[i]))

\* Expr.bitstring: Str(bits), or the exception that leaves it.
bitstring(e) ==
    LET st == bitstring_loop(flatten(e), 1,
                  [bindings |-> EmptyDict, bits |-> <<>>, exc |-> None])
    IN  IF st.exc /= None THEN st.exc ELSE Str(join(st.bits))

\* Expr.__eq__ (for two Exprs whose bitstrings are computed).
Expr_eq(self, other) ==
    /\ self.type = other.type
    /\ bitstring(self) = bitstring(other)

(***************************************************************************)
(* expr.py: lookup and bind.                                               *)
(***************************************************************************)
\* list.pop() on an empty list
IndexError == Exception("IndexError", << "pop from empty list" >>)

Top(stack) == stack[Len(stack)]

Pop(stack) == SubSeq(stack, 1, Len(stack) - 1)

\* A variant of lookup: the list is scanned from its start, so that the
\* outermost binder of a name is found.
RECURSIVE lookup_oldest(_, _)
lookup_oldest(bindings, name) ==
    IF bindings = <<>>
    THEN Exception("ValueError", << "Failed lookup" >>)
    ELSE IF Head(bindings)[1] = name
         THEN Head(bindings)[2]
         ELSE lookup_oldest(Tail(bindings), name)

\* A variant of lookup: the loop ends without a raise, None is returned, and
\* ParameterReference(None) raises its TypeError.
RECURSIVE lookup_no_raise(_, _)
lookup_no_raise(bindings, name) ==
    IF bindings = <<>>
    THEN Exception("TypeError",
                   << "parameter should be an instance of Parameter" >>)
    ELSE LET pair == bindings[Len(bindings)]
         IN  IF pair[1] = name
             THEN pair[2]
             ELSE lookup_no_raise(SubSeq(bindings, 1, Len(bindings) - 1), name)

\* lookup(bindings, name): bindings is a list of (name, parameter) pairs,
\* scanned from its end.
RECURSIVE lookup(_, _)
lookup(bindings, name) ==
    IF bindings = <<>>
    THEN Exception("ValueError", << "Failed lookup" >>)
    ELSE LET pair == bindings[Len(bindings)]
         IN  IF pair[1] = name
             THEN pair[2]
             ELSE lookup(SubSeq(bindings, 1, Len(bindings) - 1), name)


\* The body of bind's for loop, on one event of the raw tree.
bind_step(st, ev) ==
    CASE ev.action = "NAME" ->
            LET parameter == lookup(st.bindings, ev.arg)
            IN  IF IsException(parameter)
                THEN [st EXCEPT !.exc = parameter]
                ELSE [st EXCEPT !.expr_stack =
                                    Append(@, ParameterReference(parameter))]
      [] ev.action = "OPEN_FUNCTION" ->
            LET parameter == Parameter(st.nparams + 1, ev.arg)
            IN  [st EXCEPT !.nparams = @ + 1,
                           !.bindings = Append(@, << ev.arg, parameter >>)]
      [] ev.action = "CLOSE_FUNCTION" ->
            IF st.bindings = <<>> \/ st.expr_stack = <<>>
            THEN [st EXCEPT !.exc = IndexError]
            ELSE LET parameter == Top(st.bindings)[2]
                 IN  [st EXCEPT
                        !.bindings = Pop(@),
                        !.expr_stack =
                            Append(Pop(@), FunctionExpr(parameter, Top(@)))]
      [] ev.action = "OPEN_APPLY" -> st
      [] ev.action = "CLOSE_APPLY" ->
            IF Len(st.expr_stack) < 2
            THEN [st EXCEPT !.exc = IndexError]
            ELSE LET arg == Top(st.expr_stack)
                     fn  == Top(Pop(st.expr_stack))
                 IN  [st EXCEPT !.expr_stack =
                                    Append(Pop(Pop(@)), ApplyExpr(fn, arg))]
      [] OTHER -> [st EXCEPT !.exc = Exception("AssertionError",
                                               << "never get here" >>)]

RECURSIVE bind_loop(_, _, _)
bind_loop(events, i, st) ==
    IF i > Len(events) \/ st.exc /= None
    THEN st
    ELSE bind_loop(events, i + 1, bind_step(st, events[i]))

\* bind(ast) when n Parameters have been allocated: the Expr returned or the
\* exception raised (result), and the number of Parameters allocated then.
bind(ast, n) ==
    LET st == bind_loop(AstFlatten(ast), 1,
                  [expr_stack |-> <<>>, bindings |-> <<>>,
                   nparams |-> n, exc |-> None])
    IN  [nparams |-> st.nparams,
         result |->
            IF st.exc /= None THEN st.exc
            ELSE IF st.expr_stack = <<>> THEN IndexError
            ELSE IF Len(st.expr_stack) /= 1
                 THEN Exception("AssertionError", <<>>)
            ELSE Top(st.expr_stack)]

(***************************************************************************)
(* expr.py: FunctionExpr.__call__.                                         *)
(***************************************************************************)
\* A variant of call_close_apply: the two pops taken in the other order.
call_close_apply_swapped(result_stack) ==
    LET function == Top(result_stack)
        argument == Top(Pop(result_stack))
    IN  Append(Pop(Pop(result_stack)), ApplyExpr(function, argument))

\* CLOSE_APPLY: the two operands popped, function below argument.
call_close_apply(result_stack) ==
    LET argument == Top(result_stack)
        function == Top(Pop(result_stack))
    IN  Append(Pop(Pop(result_stack)), ApplyExpr(function, argument))

\* A variant of call_new_parameter: the Parameter of the body is used again.
call_same_parameter(n, arg) == arg

\* call_new_parameter where Parameters of one name are one Parameter.
call_parameter_by_name(n, arg) == Parameter(0, arg.name)

\* FUNCTION: new_parameter = Parameter(arg.name), the n-th Parameter made.
call_new_parameter(n, arg) == Parameter(n, arg.name)

\* The body of __call__'s for loop, on one event of self.body.
call_step(st, ev) ==
    CASE ev.piece = "CLOSE_APPLY" ->
            IF Len(st.result_stack) < 2
            THEN [st EXCEPT !.exc = IndexError]
            ELSE [st EXCEPT !.result_stack = call_close_apply(@)]
      [] ev.piece = "FUNCTION" ->
            LET new_parameter == call_new_parameter(st.nparams + 1, ev.arg)
            IN  IF ev.arg \in DOMAIN st.replacements
                THEN [st EXCEPT !.nparams = @ + 1,
                                !.exc = Exception("AssertionError", <<>>)]
                ELSE [st EXCEPT
                        !.nparams = @ + 1,
                        !.replacements =
                            DictSet(@, ev.arg,
                                    ParameterReference(new_parameter))]
      [] ev.piece = "CLOSE_FUNCTION" ->
            IF ev.arg \notin DOMAIN st.replacements
            THEN [st EXCEPT !.exc = Exception("KeyError", <<ev.arg>>)]
            ELSE LET popped == st.replacements[ev.arg]
                 IN  IF popped.type /= "ParameterReference"
                     THEN [st EXCEPT
                            !.replacements = DictDel(@, ev.arg),
                            !.exc = Exception("AttributeError",
                                              << "parameter" >>)]
                     ELSE IF st.result_stack = <<>>
                     THEN [st EXCEPT !.replacements = DictDel(@, ev.arg),
                                     !.exc = IndexError]
                     ELSE [st EXCEPT
                            !.replacements = DictDel(@, ev.arg),
                            !.result_stack =
                                Append(Pop(@),
                                       FunctionExpr(popped.parameter, Top(@)))]
      [] ev.piece = "NAME" ->
            IF ev.arg \notin DOMAIN st.replacements
            THEN [st EXCEPT !.exc = Exception("KeyError", <<ev.arg>>)]
            ELSE [st EXCEPT !.result_stack =
                                Append(@, st.replacements[ev.arg])]
      [] OTHER -> st

RECURSIVE call_loop(_, _, _)
call_loop(events, i, st) ==
    IF i > Len(events) \/ st.exc /= None
    THEN st
    ELSE call_loop(events, i + 1, call_step(st, events[i]))

\* self(argument) for a FunctionExpr self when n Parameters have been
\* allocated: the Expr returned or the exception raised, and the number of
\* Parameters allocated then.
FunctionExpr_call(self, argument, n) ==
    LET st == call_loop(flatten(self.body), 1,
                  [result_stack |-> <<>>,
                   replacements |-> DictSet(EmptyDict, self.parameter, argument),
                   nparams |-> n, exc |-> None])
    IN  [nparams |-> st.nparams,
         result |->
            IF st.exc /= None THEN st.exc
            ELSE IF st.result_stack = <<>> THEN IndexError
            ELSE IF Len(st.result_stack) /= 1
                 THEN Exception("AssertionError", <<>>)
            ELSE Top(st.result_stack)]

(***************************************************************************)
(* expr.py: variants, name_avoiding and unbind.                            *)
(***************************************************************************)
DIGITS == << "0", "1", "2", "3", "4", "5", "6", "7", "8", "9" >>

RECURSIVE Power10(_)
Power10(n) == IF n = 0 THEN 1 ELSE 10 * Power10(n - 1)

\* The k-th tuple (from 0) of itertools.product(DIGITS, repeat=len), joined.
RECURSIVE suffix(_, _)
suffix(k, len) ==
    IF len = 0 THEN ""
    ELSE suffix(k \div 10, len - 1) \o DIGITS[(k % 10) + 1]

\* The k-th name (from 0) that variants(base_name) yields, where the names of
\* suffix lengths below suffix_length have been counted off already.
RECURSIVE variant(_, _, _)
variant(base_name, k, suffix_length) ==
    IF k < Power10(suffix_length)
    THEN base_name \o suffix(k, suffix_length)
    ELSE variant(base_name, k - Power10(suffix_length), suffix_length + 1)

RECURSIVE name_avoiding_from(_, _, _)
name_avoiding_from(names_to_avoid, base_name, k) ==
    LET v == variant(base_name, k, 0)
    IN  IF v \notin names_to_avoid
        THEN v
        ELSE name_avoiding_from(names_to_avoid, base_name, k + 1)

\* name_avoiding that starts at the variants with one digit: base_name
\* itself is not tried.
name_avoiding_suffixed(names_to_avoid, base_name) ==
    name_avoiding_from(names_to_avoid, base_name, 1)

\* name_avoiding that stops at the first variant with a digit.
name_avoiding_once(names_to_avoid, base_name) ==
    IF base_name \notin names_to_avoid
    THEN base_name
    ELSE variant(base_name, 1, 0)

\* name_avoiding: the first variant of base_name not in names_to_avoid.
name_avoiding(names_to_avoid, base_name) ==
    name_avoiding_from(names_to_avoid, base_name, 0)

\* A variant of unbind_name: the display name of the Parameter is written,
\* not the name chosen for it.
unbind_display_name(replacements, arg) == Name(arg.name)

\* NAME: ast.Name(replacements[arg])
unbind_name(replacements, arg) == Name(replacements[arg])

\* The body of unbind's for loop, on one event of the Expr.  The result
\* stack holds raw trees and, between a FUNCTION event and its
\* CLOSE_FUNCTION, the bare name chosen for the function, as Str(name).
unbind_step(st, ev) ==
    CASE ev.piece = "CLOSE_APPLY" ->
            IF Len(st.result_stack) < 2
            THEN [st EXCEPT !.exc = IndexError]
            ELSE LET argument == Top(st.result_stack)
                     function == Top(Pop(st.result_stack))
                 IN  [st EXCEPT !.result_stack =
                            Append(Pop(Pop(@)), Apply(function, argument))]
      [] ev.piece = "FUNCTION" ->
            LET name == name_avoiding(st.names_in_scope, ev.arg.name)
            IN  IF name \in st.names_in_scope
                   \/ ev.arg \in DOMAIN st.replacements
                THEN [st EXCEPT !.exc = Exception("AssertionError", <<>>)]
                ELSE [st EXCEPT
                        !.names_in_scope = @ \cup {name},
                        !.replacements = DictSet(@, ev.arg, name),
                        !.result_stack = Append(@, Str(name))]
      [] ev.piece = "CLOSE_FUNCTION" ->
            IF Len(st.result_stack) < 2
            THEN [st EXCEPT !.exc = IndexError]
            ELSE LET body == Top(st.result_stack)
                     name == Top(Pop(st.result_stack))
                 IN  IF ev.arg \notin DOMAIN st.replacements
                     THEN [st EXCEPT
                            !.result_stack = Pop(Pop(@)),
                            !.exc = Exception("KeyError", <<ev.arg>>)]
                     ELSE IF name.type /= "str"
                             \/ name.value \notin st.names_in_scope
                     THEN [st EXCEPT
                            !.result_stack = Pop(Pop(@)),
                            !.replacements = DictDel(@, ev.arg),
                            !.exc = Exception("KeyError", <<name>>)]
                     ELSE [st EXCEPT
                            !.result_stack =
                                Append(Pop(Pop(@)), Function(name.value, body)),
                            !.replacements = DictDel(@, ev.arg),
                            !.names_in_scope = @ \ {name.value}]
      [] ev.piece = "NAME" ->
            IF ev.arg \notin DOMAIN st.replacements
            THEN [st EXCEPT !.exc = Exception("KeyError", <<ev.arg>>)]
            ELSE [st EXCEPT !.result_stack =
                                Append(@, unbind_name(st.replacements, ev.arg))]
      [] OTHER -> st

RECURSIVE unbind_loop(_, _, _)
unbind_loop(events, i, st) ==
    IF i > Len(events) \/ st.exc /= None
    THEN st
    ELSE unbind_loop(events, i + 1, unbind_step(st, events[i]))

\* unbind(expr): the raw tree returned, or the exception raised.
unbind(expr) ==
    LET st == unbind_loop(flatten(expr), 1,
                  [result_stack |-> <<>>, replacements |-> EmptyDict,
                   names_in_scope |-> {}, exc |-> None])
    IN  IF st.exc /= None THEN st.exc
        ELSE IF st.result_stack = <<>> THEN IndexError
        ELSE IF Len(st.result_stack) /= 1
                \/ DOMAIN st.replacements /= {}
                \/ st.names_in_scope /= {}
             THEN Exception("AssertionError", <<>>)
        ELSE Top(st.result_stack)

(***************************************************************************)
(* lambda_parser.py: the token types and tokenize.  A source text is a     *)
(* sequence of characters; a token is a pair (type, value).                *)
(***************************************************************************)
ID == "id"
LEFT == "left"
RIGHT == "right"
SLASH == "slash"
DOT == "dot"
END == "end"

ATOM == "atom"
EXPR == "expr"
NAMES == "names"
COMPLETE == "complete"

Token(type, value) == [type |-> type, value |-> value]

IDENTIFIER_CHARACTERS ==
    {"a", "b", "c", "d", "e", "f", "g", "h", "i", "j", "k", "l", "m", "n",
     "o", "p", "q", "r", "s", "t", "u", "v", "w", "x", "y", "z", "_"}

WHITESPACE == {" ", "\n"}

SINGLE_TOKEN_CHARS ==
    [c \in {"(", ")", "\\", "."} |->
        CASE c = "(" -> LEFT
          [] c = ")" -> RIGHT
          [] c = "\\" -> SLASH
          [] c = "." -> DOT]

ParseError(args) == Exception("ParseError", args)

\* The generator tokenize(s) before its first next().  at is where it
\* stands: "loop" at the top of the while loop, "yield_id" at the yield of
\* an identifier (c is then the character that ended it, None at the end of
\* the text), "done" once it has yielded END or raised.
tokenize(s) ==
    [chars |-> s, parsing_id |-> FALSE, id_chars |-> <<>>,
     at |-> "loop", c |-> None]

\* Lines 103-111 of tokenize for the character c (Str(c), or None at the end
\* of the text), and the while loop from its top (tokenize_loop): the token
\* yielded or the exception raised, and the generator then.
RECURSIVE tokenize_char(_, _)
RECURSIVE tokenize_loop(_)
\* tokenize_char where a character that is neither punctuation nor None
\* is passed over as whitespace is.
tokenize_char_lenient(g, c) ==
    IF c.type = "None"
    THEN [token |-> Token(END, None), gen |-> [g EXCEPT !.at = "done"]]
    ELSE IF c.value \in DOMAIN SINGLE_TOKEN_CHARS
    THEN [token |-> Token(SINGLE_TOKEN_CHARS[c.value], None), gen |-> g]
    ELSE tokenize_loop(g)

tokenize_char(g, c) ==
    IF c.type = "None"
    THEN [token |-> Token(END, None), gen |-> [g EXCEPT !.at = "done"]]
    ELSE IF c.value \in DOMAIN SINGLE_TOKEN_CHARS
    THEN [token |-> Token(SINGLE_TOKEN_CHARS[c.value], None), gen |-> g]
    ELSE IF c.value \in WHITESPACE
    THEN tokenize_loop(g)
    ELSE [token |-> ParseError(<< "Invalid character in string: ", c.value >>),
          gen |-> [g EXCEPT !.at = "done"]]

tokenize_loop(g) ==
    LET c == IF g.chars = <<>> THEN None ELSE Str(Head(g.chars))
        read == [g EXCEPT !.chars = IF @ = <<>> THEN @ ELSE Tail(@)]
    IN  IF c.type = "str" /\ c.value \in IDENTIFIER_CHARACTERS
        THEN tokenize_loop(
                [read EXCEPT
                    !.parsing_id = TRUE,
                    !.id_chars = Append(IF g.parsing_id THEN @ ELSE <<>>,
                                        c.value)])
        ELSE IF g.parsing_id
        THEN [token |-> Token(ID, join(g.id_chars)),
              gen |-> [read EXCEPT !.at = "yield_id", !.c = c]]
        ELSE tokenize_char(read, c)

\* tokenize_next where the character that ends an identifier is not looked
\* at again after the identifier has been yielded.
tokenize_next_from_loop(g) ==
    CASE g.at = "done" -> [token |-> StopIteration, gen |-> g]
      [] OTHER -> tokenize_loop([g EXCEPT !.parsing_id = FALSE,
                                          !.at = "loop", !.c = None])

\* next(g) for the generator g.
tokenize_next(g) ==
    CASE g.at = "done" -> [token |-> StopIteration, gen |-> g]
      [] g.at = "yield_id" ->
            tokenize_char([g EXCEPT !.parsing_id = FALSE, !.at = "loop",
                                    !.c = None], g.c)
      [] g.at = "loop" -> tokenize_loop(g)

(***************************************************************************)
(* lambda_parser.py: TokenStream.                                          *)
(***************************************************************************)
TokenStream(tokens) == [tail |-> tokens, head |-> <<>>]

\* TokenStream.next: the token (or the exception) and the stream then.
TokenStream_next(self) ==
    IF self.head /= <<>>
    THEN [token |-> Head(self.head), stream |-> [self EXCEPT !.head = Tail(@)]]
    ELSE LET n == tokenize_next(self.tail)
         IN  [token |-> n.token, stream |-> [self EXCEPT !.tail = n.gen]]

\* TokenStream.push
TokenStream_push(self, token) == [self EXCEPT !.head = << token >> \o @]

\* TokenStream.peek (and peek_type, which is the type of its token).
TokenStream_peek(self) ==
    LET n == TokenStream_next(self)
    IN  IF IsException(n.token)
        THEN n
        ELSE [token |-> n.token, stream |-> TokenStream_push(n.stream, n.token)]

(***************************************************************************)
(* lambda_parser.py: SMParser.parse.                                       *)
(***************************************************************************)
SBEGIN == "SBEGIN"
SDOT == "SDOT"
SLEFT == "SLEFT"
SEXPR == "EXPR"
SBEGIN_COMPLETE == "SBEGIN_COMPLETE"
SLEFT_COMPLETE == "LEFT_COMPLETE"
SSLASH == "SLASH"
SSLASH_NAMES == "SLASH_NAMES"

EXPR_ATOM == "EXPR_ATOM"
SLEFT_EXPR_RIGHT == "LEFT_EXPR_RIGHT"
SATOM == "ATOM"
SID == "SID"
SNAMES == "NAMES"
RLAMBDA == "RLAMBDA"
SNAMES_ID == "SNAMES_ID"
RCOMPLETE == "RCOMPLETE"

SBEGIN_COMPLETE_END == "SBEGIN_COMPLETE_END"

\* The parser at the top of its while loop for the first time.  outcome is
\* None while the loop runs, then Return(tree) or the exception raised.
Return(value) == [type |-> "Return", value |-> value]

SMParser_parse(tokens) ==
    [tokens |-> TokenStream(tokens), value_stack |-> <<>>,
     state_stack |-> <<>>, state |-> SBEGIN, outcome |-> None]

\* shift(next_state), the token just read being token.
shift(p, token, next_state) ==
    [p EXCEPT !.state_stack = Append(@, p.state),
              !.value_stack = Append(@, token.value),
              !.state = next_state]

raise(p, exception) == [p EXCEPT !.outcome = exception]

\* shift_expr with END as the only lookahead that completes an expression.
shift_expr_end_only(p, token) ==
    LET peek == TokenStream_peek(p.tokens)
        q == [p EXCEPT !.tokens = peek.stream]
    IN  IF IsException(peek.token)
        THEN raise(q, peek.token)
        ELSE IF peek.token.type = END
        THEN shift(q, token, RCOMPLETE)
        ELSE shift(q, token, SEXPR)

\* shift_expr where, after a dot, the first atom completes the expression.
shift_expr_first_atom(p, token) ==
    LET peek == TokenStream_peek(p.tokens)
        q == [p EXCEPT !.tokens = peek.stream]
    IN  IF IsException(peek.token)
        THEN raise(q, peek.token)
        ELSE IF p.state = SDOT \/ peek.token.type \in {END, RIGHT}
        THEN shift(q, token, RCOMPLETE)
        ELSE shift(q, token, SEXPR)

\* The EXPR branch of SBEGIN, SLEFT and SDOT: one token of lookahead.
shift_expr(p, token) ==
    LET peek == TokenStream_peek(p.tokens)
        q == [p EXCEPT !.tokens = peek.stream]
    IN  IF IsException(peek.token)
        THEN raise(q, peek.token)
        ELSE IF peek.token.type \in {END, RIGHT}
        THEN shift(q, token, RCOMPLETE)
        ELSE shift(q, token, SEXPR)

\* The states SBEGIN, SLEFT and SDOT, which differ in where COMPLETE leads.
shift_start(p, after_complete) ==
    LET n == TokenStream_next(p.tokens)
        q == [p EXCEPT !.tokens = n.stream]
        token == n.token
    IN  IF IsException(token) THEN raise(q, token)
        ELSE CASE token.type = ID -> shift(q, token, SID)
               [] token.type = LEFT -> shift(q, token, SLEFT)
               [] token.type = SLASH -> shift(q, token, SSLASH)
               [] token.type = ATOM -> shift(q, token, SATOM)
               [] token.type = EXPR -> shift_expr(q, token)
               [] token.type = COMPLETE -> shift(q, token, after_complete)
               [] OTHER -> raise(q, ParseError(<<>>))

\* shift_by where a token without a transition is dropped and the state
\* kept.
shift_by_dropping(p, transitions) ==
    LET n == TokenStream_next(p.tokens)
        q == [p EXCEPT !.tokens = n.stream]
        token == n.token
    IN  IF IsException(token) THEN raise(q, token)
        ELSE IF token.type \in DOMAIN transitions
        THEN shift(q, token, transitions[token.type])
        ELSE q

\* The other shift states: transitions maps the token types the state
\* accepts to the next states.
shift_by(p, transitions) ==
    LET n == TokenStream_next(p.tokens)
        q == [p EXCEPT !.tokens = n.stream]
        token == n.token
    IN  IF IsException(token) THEN raise(q, token)
        ELSE IF token.type \in DOMAIN transitions
        THEN shift(q, token, transitions[token.type])
        ELSE raise(q, ParseError(<<>>))

\* A reduce state: count states and values are popped, the state that comes
\* to the top is entered and token is pushed back.  values is the list of
\* the popped values; IndexError when the stacks are shorter than count.
popped_values(p, count) ==
    SubSeq(p.value_stack, Len(p.value_stack) - count + 1, Len(p.value_stack))

reduce(p, count, token) ==
    IF Len(p.state_stack) < count
    THEN raise(p, Exception("IndexError", << "list index out of range" >>))
    ELSE [p EXCEPT
            !.state = p.state_stack[Len(p.state_stack) - count + 1],
            !.state_stack = SubSeq(@, 1, Len(@) - count),
            !.value_stack = SubSeq(@, 1, Len(@) - count),
            !.tokens = TokenStream_push(@, token)]

\* lambda_atom with names.pop(0) for names.pop().
RECURSIVE lambda_atom_first_innermost(_, _)
lambda_atom_first_innermost(names, atom) ==
    IF names = <<>>
    THEN atom
    ELSE lambda_atom_first_innermost(Tail(names), Function(Head(names), atom))

\* RLAMBDA: while names: atom = Function(names.pop(), atom)
RECURSIVE lambda_atom(_, _)
lambda_atom(names, atom) ==
    IF names = <<>>
    THEN atom
    ELSE lambda_atom(SubSeq(names, 1, Len(names) - 1),
                     Function(names[Len(names)], atom))

\* expr_atom with the two values exchanged.
expr_atom_exchanged(values) == Apply(values[2], values[1])

\* EXPR_ATOM: expr = Apply(values[0], values[1])
expr_atom(values) == Apply(values[1], values[2])

\* SNAMES_ID: names, name = values; names.append(name)
names_id(values) == Append(values[1], values[2])

\* The branches of the while loop of SMParser.parse, one for each state.
state_SBEGIN(p) ==
    shift_start(p, SBEGIN_COMPLETE)

state_SLEFT(p) ==
    shift_start(p, SLEFT_COMPLETE)

state_SDOT(p) ==
    shift_start(p, RLAMBDA)

state_SEXPR(p) ==
    shift_by(p, [t \in {ID, LEFT, SLASH, ATOM} |->
                    CASE t = ID -> SID
                      [] t = LEFT -> SLEFT
                      [] t = SLASH -> SSLASH
                      [] t = ATOM -> EXPR_ATOM])

state_SBEGIN_COMPLETE(p) ==
    shift_by(p, [t \in {END} |-> SBEGIN_COMPLETE_END])

state_SLEFT_COMPLETE(p) ==
    shift_by(p, [t \in {RIGHT} |-> SLEFT_EXPR_RIGHT])

state_SSLASH(p) ==
    shift_by(p, [t \in {ID, NAMES} |-> IF t = ID THEN SNAMES ELSE SSLASH_NAMES])

state_SSLASH_NAMES(p) ==
    shift_by(p, [t \in {ID, DOT} |-> IF t = ID THEN SNAMES_ID ELSE SDOT])

state_RCOMPLETE(p) ==
    reduce(p, 1, Token(COMPLETE, popped_values(p, 1)[1]))

state_SNAMES_ID(p) ==
    reduce(p, 2, Token(NAMES, names_id(popped_values(p, 2))))

state_RLAMBDA(p) ==
    reduce(p, 4, Token(ATOM, lambda_atom(popped_values(p, 4)[2],
                                         popped_values(p, 4)[4])))

state_SNAMES(p) ==
    reduce(p, 1, Token(NAMES, << popped_values(p, 1)[1] >>))

state_SID(p) ==
    reduce(p, 1, Token(ATOM, Name(popped_values(p, 1)[1])))

\* A reduction that presents the atom again, as an ATOM.
state_SATOM_again(p) ==
    reduce(p, 1, Token(ATOM, popped_values(p, 1)[1]))

state_SATOM(p) ==
    reduce(p, 1, Token(EXPR, popped_values(p, 1)[1]))

state_EXPR_ATOM(p) ==
    reduce(p, 2, Token(EXPR, expr_atom(popped_values(p, 2))))

state_SLEFT_EXPR_RIGHT(p) ==
    reduce(p, 3, Token(ATOM, popped_values(p, 3)[2]))

state_SBEGIN_COMPLETE_END(p) ==
    IF Len(p.value_stack) < 2
    THEN raise(p, Exception("IndexError", << "list index out of range" >>))
    ELSE [p EXCEPT !.outcome = Return(p.value_stack[Len(p.value_stack) - 1])]

\* One turn of the while loop of SMParser.parse.
parse_step(p) ==
    CASE p.state = SBEGIN -> state_SBEGIN(p)
      [] p.state = SLEFT -> state_SLEFT(p)
      [] p.state = SDOT -> state_SDOT(p)
      [] p.state = SEXPR -> state_SEXPR(p)
      [] p.state = SBEGIN_COMPLETE -> state_SBEGIN_COMPLETE(p)
      [] p.state = SLEFT_COMPLETE -> state_SLEFT_COMPLETE(p)
      [] p.state = SSLASH -> state_SSLASH(p)
      [] p.state = SSLASH_NAMES -> state_SSLASH_NAMES(p)
      [] p.state = RCOMPLETE -> state_RCOMPLETE(p)
      [] p.state = SNAMES_ID -> state_SNAMES_ID(p)
      [] p.state = RLAMBDA -> state_RLAMBDA(p)
      [] p.state = SNAMES -> state_SNAMES(p)
      [] p.state = SID -> state_SID(p)
      [] p.state = SATOM -> state_SATOM(p)
      [] p.state = EXPR_ATOM -> state_EXPR_ATOM(p)
      [] p.state = SLEFT_EXPR_RIGHT -> state_SLEFT_EXPR_RIGHT(p)
      [] p.state = SBEGIN_COMPLETE_END -> state_SBEGIN_COMPLETE_END(p)
      [] OTHER -> raise(p, Exception("ValueError",
                                     << "Unknown state: ", p.state >>))

\* The while loop of SMParser.parse, run until it returns or raises.
RECURSIVE parse_loop(_)
parse_loop(p) == IF p.outcome /= None THEN p ELSE parse_loop(parse_step(p))

\* parse(s): Return(tree), or the exception raised.
parse(s) == parse_loop(SMParser_parse(tokenize(s))).outcome

(***************************************************************************)
(* The session: a raw tree is bound, and the Exprs made so far are         *)
(* applied to each other, unbound and bound again.                         *)
(***************************************************************************)
VARIABLES
    ast,        \* the raw tree given to bind
    exprs,      \* the Exprs returned by bind and by __call__ so far
    nparams,    \* the number of Parameter objects allocated so far
    last,       \* the last call made: its operands and what it returned
    source,     \* the text given to parse or to tokenize
    parser,     \* SMParser.parse(tokenize(source)) in its while loop
    generator,  \* the generator tokenize(source) that a client iterates
    yielded,    \* what next(generator) has returned or raised, call by call
    walked,     \* the Expr that the traversals walk
    traversals  \* the generators flatten() made, and what each has yielded

vars == <<ast, exprs, nparams, last, source, parser, generator, yielded,
          walked, traversals>>

\* The variables in the state they have where no text is tokenized or
\* parsed, no Expr is made and no traversal is under way.
NoSession == /\ ast = Name("x")
             /\ exprs = {}
             /\ nparams = 0
             /\ last = [op |-> "none"]

NoParser == parser = SMParser_parse(tokenize(<<>>))

NoTokens == generator = tokenize(<<>>) /\ yielded = <<>>

NoTraversals == walked = None /\ traversals = <<>>

\* The raw trees of n nodes written with InputNames.
RECURSIVE TreesOfSize(_)
TreesOfSize(n) ==
    IF n = 1
    THEN {Name(a) : a \in InputNames}
    ELSE {Function(a, b) : a \in InputNames, b \in TreesOfSize(n - 1)}
         \cup UNION {{Apply(f, a) : f \in TreesOfSize(i),
                                    a \in TreesOfSize(n - 1 - i)}
                     : i \in 1 .. n - 2}

RawTrees == UNION {TreesOfSize(n) : n \in 1 .. MaxNodes}

\* e and the Exprs its attributes lead to.
RECURSIVE Nodes(_)
Nodes(e) ==
    CASE e.type = "ParameterReference" -> {e}
      [] e.type = "FunctionExpr" -> {e} \cup Nodes(e.body)
      [] e.type = "ApplyExpr" ->
            {e} \cup Nodes(e.function) \cup Nodes(e.argument)

\* An Expr and what the attributes function and argument of its ApplyExpr
\* nodes lead to: the closed Exprs a client gets at from a closed Expr.
RECURSIVE Parts(_)
Parts(e) ==
    IF e.type = "ApplyExpr"
    THEN {e} \cup Parts(e.function) \cup Parts(e.argument)
    ELSE {e}

Operands == UNION {Parts(e) : e \in exprs}

\* The FunctionExprs that a client gets at through the attribute body: each
\* lies inside a FunctionExpr of a closed Expr.
InnerFunctions ==
    {f \in UNION {Nodes(e) : e \in exprs} \ Operands :
        f.type = "FunctionExpr"}

\* Whether the Expr a call returned is kept for later calls.  An exception
\* returns none; an Expr beyond MaxExprs is looked at in last and dropped.
\* What is not kept is garbage, and so are the Parameters made for it: the
\* allocation counter moves only for what is kept.
Kept(result) == ~IsException(result) /\ Cardinality(exprs) < MaxExprs

Returned(r) ==
    /\ exprs' = IF Kept(r.result) THEN exprs \cup {r.result} ELSE exprs
    /\ nparams' = IF Kept(r.result) THEN r.nparams ELSE nparams

Init ==
    /\ ast \in RawTrees
    /\ exprs = {}
    /\ nparams = 0
    /\ last = [op |-> "none"]
    /\ source = <<>>
    /\ NoParser
    /\ NoTokens
    /\ NoTraversals

\* bind(ast), on the input.
Bind ==
    /\ last.op = "none"
    /\ LET r == bind(ast, nparams)
       IN  /\ Returned(r)
           /\ last' = [op |-> "bind", ast |-> ast, result |-> r.result,
                       expr |-> None]
    /\ UNCHANGED <<ast, source, parser, generator, yielded, walked,
                 traversals>>

\* f(arg), for a FunctionExpr f and an Expr arg made so far, while the
\* session has room for what it returns; heap is the number of Parameters
\* allocated when the call is made.
Call(f, arg) ==
    /\ Cardinality(exprs) < MaxExprs
    /\ f.type = "FunctionExpr"
    /\ LET r == FunctionExpr_call(f, arg, nparams)
       IN  /\ Returned(r)
           /\ last' = [op |-> "call", f |-> f, arg |-> arg,
                       result |-> r.result, heap |-> nparams]
    /\ UNCHANGED <<ast, source, parser, generator, yielded, walked,
                 traversals>>

\* f(arg), for a FunctionExpr f inside a FunctionExpr of an Expr made so
\* far and a closed Expr arg.  What it returns is looked at in last and
\* dropped.
CallInner(f, arg) ==
    /\ f.type = "FunctionExpr"
    /\ LET r == FunctionExpr_call(f, arg, nparams)
       IN  last' = [op |-> "call_inner", f |-> f, arg |-> arg,
                    result |-> r.result, heap |-> nparams]
    /\ UNCHANGED <<ast, exprs, nparams, source, parser, generator, yielded,
                   walked, traversals>>

\* unbind(e), for an Expr made so far.
Unbind(e) ==
    /\ last' = [op |-> "unbind", expr |-> e, result |-> unbind(e)]
    /\ UNCHANGED <<ast, exprs, nparams, source, parser, generator, yielded,
                 walked, traversals>>

\* bind(t), for the raw tree t that the last call, unbind(e), returned;
\* the record keeps e in expr.
BindUnbound ==
    /\ last.op = "unbind"
    /\ ~IsException(last.result)
    /\ LET r == bind(last.result, nparams)
       IN  /\ Returned(r)
           /\ last' = [op |-> "bind", ast |-> last.result,
                       result |-> r.result, expr |-> last.expr]
    /\ UNCHANGED <<ast, source, parser, generator, yielded, walked,
                 traversals>>

Next ==
    \/ Bind
    \/ \E f \in Operands : \E arg \in Operands : Call(f, arg)
    \/ \E e \in Operands : Unbind(e)
    \/ BindUnbound

Spec == Init /\ [][Next]_vars

\* The session in which a client also calls the FunctionExprs it finds
\* inside the Exprs made.
NextInner ==
    \/ Next
    \/ \E f \in InnerFunctions : \E arg \in Operands : CallInner(f, arg)

SpecInner == Init /\ [][NextInner]_vars

(***************************************************************************)
(* The session on raw trees whose names are a name and its first variant,  *)
(* so that unbind meets display names that are variants of each other.     *)
(***************************************************************************)
VariantNames == {"x", "x0"}

RECURSIVE VariantTreesOfSize(_)
VariantTreesOfSize(n) ==
    IF n = 1
    THEN {Name(a) : a \in VariantNames}
    ELSE {Function(a, b) : a \in VariantNames,
                           b \in VariantTreesOfSize(n - 1)}
         \cup UNION {{Apply(f, a) : f \in VariantTreesOfSize(i),
                                    a \in VariantTreesOfSize(n - 1 - i)}
                     : i \in 1 .. n - 2}

InitVariants ==
    /\ ast \in UNION {VariantTreesOfSize(n) : n \in 1 .. MaxNodes}
    /\ exprs = {}
    /\ nparams = 0
    /\ last = [op |-> "none"]
    /\ source = <<>>
    /\ NoParser
    /\ NoTokens
    /\ NoTraversals

SpecVariants == InitVariants /\ [][Next]_vars

(***************************************************************************)
(* The parser: a text is tokenized and parsed, one turn of the while loop  *)
(* of SMParser.parse at a time.                                            *)
(***************************************************************************)
\* The text of a sequence of tokens whose names have one character: a space
\* between two names that follow each other, and none elsewhere.
RECURSIVE Text(_)
Text(tokens) ==
    IF tokens = <<>>
    THEN <<>>
    ELSE LET token == Head(tokens)
             spelt == CASE token.type = ID -> token.value
                        [] token.type = LEFT -> "("
                        [] token.type = RIGHT -> ")"
                        [] token.type = SLASH -> "\\"
                        [] token.type = DOT -> "."
             space == /\ Len(tokens) > 1
                      /\ token.type = ID
                      /\ tokens[2].type = ID
         IN  << spelt >> \o (IF space THEN << " " >> ELSE <<>>)
                        \o Text(Tail(tokens))

SourceTokens ==
    {Token(ID, a) : a \in InputNames}
    \cup {Token(type, None) : type \in {LEFT, RIGHT, SLASH, DOT}}

\* The texts of at most MaxTokens tokens.
IsSource(s) ==
    \E n \in 0 .. MaxTokens : \E tokens \in [1 .. n -> SourceTokens] :
        s = Text(tokens)

InitParse ==
    /\ NoSession
    /\ IsSource(source)
    /\ parser = SMParser_parse(tokenize(source))
    /\ NoTokens
    /\ NoTraversals

\* One turn of the while loop of SMParser.parse in each of its states, while
\* it has neither returned nor raised.
InSBEGIN ==
    /\ parser.outcome = None
    /\ parser.state = SBEGIN
    /\ parser' = state_SBEGIN(parser)
    /\ UNCHANGED <<ast, exprs, nparams, last, source, generator, yielded,
                   walked, traversals>>

InSLEFT ==
    /\ parser.outcome = None
    /\ parser.state = SLEFT
    /\ parser' = state_SLEFT(parser)
    /\ UNCHANGED <<ast, exprs, nparams, last, source, generator, yielded,
                   walked, traversals>>

InSDOT ==
    /\ parser.outcome = None
    /\ parser.state = SDOT
    /\ parser' = state_SDOT(parser)
    /\ UNCHANGED <<ast, exprs, nparams, last, source, generator, yielded,
                   walked, traversals>>

InSEXPR ==
    /\ parser.outcome = None
    /\ parser.state = SEXPR
    /\ parser' = state_SEXPR(parser)
    /\ UNCHANGED <<ast, exprs, nparams, last, source, generator, yielded,
                   walked, traversals>>

InSBEGIN_COMPLETE ==
    /\ parser.outcome = None
    /\ parser.state = SBEGIN_COMPLETE
    /\ parser' = state_SBEGIN_COMPLETE(parser)
    /\ UNCHANGED <<ast, exprs, nparams, last, source, generator, yielded,
                   walked, traversals>>

InSLEFT_COMPLETE ==
    /\ parser.outcome = None
    /\ parser.state = SLEFT_COMPLETE
    /\ parser' = state_SLEFT_COMPLETE(parser)
    /\ UNCHANGED <<ast, exprs, nparams, last, source, generator, yielded,
                   walked, traversals>>

InSSLASH ==
    /\ parser.outcome = None
    /\ parser.state = SSLASH
    /\ parser' = state_SSLASH(parser)
    /\ UNCHANGED <<ast, exprs, nparams, last, source, generator, yielded,
                   walked, traversals>>

InSSLASH_NAMES ==
    /\ parser.outcome = None
    /\ parser.state = SSLASH_NAMES
    /\ parser' = state_SSLASH_NAMES(parser)
    /\ UNCHANGED <<ast, exprs, nparams, last, source, generator, yielded,
                   walked, traversals>>

InRCOMPLETE ==
    /\ parser.outcome = None
    /\ parser.state = RCOMPLETE
    /\ parser' = state_RCOMPLETE(parser)
    /\ UNCHANGED <<ast, exprs, nparams, last, source, generator, yielded,
                   walked, traversals>>

InSNAMES_ID ==
    /\ parser.outcome = None
    /\ parser.state = SNAMES_ID
    /\ parser' = state_SNAMES_ID(parser)
    /\ UNCHANGED <<ast, exprs, nparams, last, source, generator, yielded,
                   walked, traversals>>

InRLAMBDA ==
    /\ parser.outcome = None
    /\ parser.state = RLAMBDA
    /\ parser' = state_RLAMBDA(parser)
    /\ UNCHANGED <<ast, exprs, nparams, last, source, generator, yielded,
                   walked, traversals>>

InSNAMES ==
    /\ parser.outcome = None
    /\ parser.state = SNAMES
    /\ parser' = state_SNAMES(parser)
    /\ UNCHANGED <<ast, exprs, nparams, last, source, generator, yielded,
                   walked, traversals>>

InSID ==
    /\ parser.outcome = None
    /\ parser.state = SID
    /\ parser' = state_SID(parser)
    /\ UNCHANGED <<ast, exprs, nparams, last, source, generator, yielded,
                   walked, traversals>>

InSATOM ==
    /\ parser.outcome = None
    /\ parser.state = SATOM
    /\ parser' = state_SATOM(parser)
    /\ UNCHANGED <<ast, exprs, nparams, last, source, generator, yielded,
                   walked, traversals>>

InEXPR_ATOM ==
    /\ parser.outcome = None
    /\ parser.state = EXPR_ATOM
    /\ parser' = state_EXPR_ATOM(parser)
    /\ UNCHANGED <<ast, exprs, nparams, last, source, generator, yielded,
                   walked, traversals>>

InSLEFT_EXPR_RIGHT ==
    /\ parser.outcome = None
    /\ parser.state = SLEFT_EXPR_RIGHT
    /\ parser' = state_SLEFT_EXPR_RIGHT(parser)
    /\ UNCHANGED <<ast, exprs, nparams, last, source, generator, yielded,
                   walked, traversals>>

InSBEGIN_COMPLETE_END ==
    /\ parser.outcome = None
    /\ parser.state = SBEGIN_COMPLETE_END
    /\ parser' = state_SBEGIN_COMPLETE_END(parser)
    /\ UNCHANGED <<ast, exprs, nparams, last, source, generator, yielded,
                   walked, traversals>>

NextParse ==
    \/ InSBEGIN
    \/ InSLEFT
    \/ InSDOT
    \/ InSEXPR
    \/ InSBEGIN_COMPLETE
    \/ InSLEFT_COMPLETE
    \/ InSSLASH
    \/ InSSLASH_NAMES
    \/ InRCOMPLETE
    \/ InSNAMES_ID
    \/ InRLAMBDA
    \/ InSNAMES
    \/ InSID
    \/ InSATOM
    \/ InEXPR_ATOM
    \/ InSLEFT_EXPR_RIGHT
    \/ InSBEGIN_COMPLETE_END

SpecParse == InitParse /\ [][NextParse]_vars

\* The parser as it runs, on the texts of at most MaxTokensLive tokens: a
\* call of SMParser.parse that has neither returned nor raised takes the next
\* turn of its while loop.
InitParseFair ==
    /\ NoSession
    /\ \E n \in 0 .. MaxTokensLive : \E tokens \in [1 .. n -> SourceTokens] :
            source = Text(tokens)
    /\ parser = SMParser_parse(tokenize(source))
    /\ NoTokens
    /\ NoTraversals

SpecParseFair == InitParseFair /\ [][NextParse]_vars /\ WF_vars(NextParse)

(***************************************************************************)
(* The tokenizer: a client calls next() on the generator tokenize(source), *)
(* and goes on for MaxExhausted calls after it has finished.               *)
(***************************************************************************)
\* The characters the texts are written with: two identifier characters,
\* the four punctuation characters, the two whitespace characters and two
\* characters that tokenize rejects.
TextChars == {"x", "_", "(", ")", "\\", ".", " ", "\n", "$", "\t"}

InitTokenize ==
    /\ NoSession
    /\ \E n \in 0 .. MaxChars : \E text \in [1 .. n -> TextChars] :
            source = SubSeq(text, 1, n)
    /\ NoParser
    /\ generator = tokenize(source)
    /\ yielded = <<>>
    /\ NoTraversals

\* next(generator): the generator runs to its next yield, or raises.
Resumed ==
    LET n == tokenize_next(generator)
    IN  /\ generator' = n.gen
        /\ yielded' = Append(yielded, n.token)
        /\ UNCHANGED <<ast, exprs, nparams, last, source, parser, walked,
                       traversals>>

\* next() on the generator at the top of its while loop: at the start, or
\* after it has yielded a punctuation token.
NextFromLoop == generator.at = "loop" /\ Resumed

\* next() on the generator that stands at the yield of an identifier.
NextAfterIdentifier == generator.at = "yield_id" /\ Resumed

\* next() on the generator that has yielded END or raised.
NextExhausted ==
    /\ generator.at = "done"
    /\ Cardinality({i \in DOMAIN yielded : yielded[i] = StopIteration})
            < MaxExhausted
    /\ Resumed

NextTokenize == NextFromLoop \/ NextAfterIdentifier \/ NextExhausted

SpecTokenize == InitTokenize /\ [][NextTokenize]_vars

(***************************************************************************)
(* Traversals: flatten generators over one Expr, resumed in any order.     *)
(* walked is the Expr, bind's result on a closed raw tree; each entry of   *)
(* traversals is a generator with the events next() has returned from it.  *)
(***************************************************************************)
\* The raw trees of n nodes over one name: flatten reads no name, and every
\* binder of the Expr has its own Parameter.
RECURSIVE WalkedTreesOfSize(_)
WalkedTreesOfSize(n) ==
    IF n = 1
    THEN {Name("x")}
    ELSE {Function("x", b) : b \in WalkedTreesOfSize(n - 1)}
         \cup UNION {{Apply(f, a) : f \in WalkedTreesOfSize(i),
                                    a \in WalkedTreesOfSize(n - 1 - i)}
                     : i \in 1 .. n - 2}

WalkedTrees ==
    {t \in UNION {WalkedTreesOfSize(n) : n \in 1 .. MaxWalked} :
        ~IsException(bind(t, 0).result)}

InitFlatten ==
    /\ ast \in WalkedTrees
    /\ exprs = {}
    /\ nparams = 0
    /\ last = [op |-> "none"]
    /\ source = <<>>
    /\ NoParser
    /\ NoTokens
    /\ walked = bind(ast, 0).result
    /\ traversals = <<>>

Exhausted(t) ==
    Cardinality({k \in DOMAIN t.yielded : t.yielded[k] = StopIteration})

\* e.flatten(): one more generator, the first over walked and a later one
\* over walked or an Expr inside it.
FlattenCall(e) ==
    /\ Len(traversals) < MaxTraversals
    /\ traversals' = Append(traversals,
                            [gen |-> flatten_call(e), yielded |-> <<>>])
    /\ UNCHANGED <<ast, exprs, nparams, last, source, parser, generator,
                   yielded, walked>>

\* next() on the generator of traversal i.
FlattenResumed(i) ==
    LET gens == [j \in DOMAIN traversals |-> traversals[j].gen]
        r    == flatten_resume(gens, i)
    IN  /\ traversals' =
                [j \in DOMAIN traversals |->
                    [gen |-> r.gens[j],
                     yielded |-> IF j = i
                                 THEN Append(traversals[j].yielded, r.event)
                                 ELSE traversals[j].yielded]]
        /\ UNCHANGED <<ast, exprs, nparams, last, source, parser, generator,
                       yielded, walked>>

\* next() on a generator whose while loop has work left.
FlattenNext(i) == traversals[i].gen.to_do /= <<>> /\ FlattenResumed(i)

\* next() on a generator whose while loop has none.
FlattenExhausted(i) ==
    /\ traversals[i].gen.to_do = <<>>
    /\ Exhausted(traversals[i]) < MaxExhausted
    /\ FlattenResumed(i)

NextFlatten ==
    \/ \E e \in IF traversals = <<>> THEN {walked} ELSE Nodes(walked) :
            FlattenCall(e)
    \/ \E i \in DOMAIN traversals : FlattenNext(i)
    \/ \E i \in DOMAIN traversals : FlattenExhausted(i)

SpecFlatten == InitFlatten /\ [][NextFlatten]_vars

(***************************************************************************)
(* Reference notions the properties are stated with.  None of them uses    *)
(* flatten, bitstring, lookup or the loops above.                          *)
(***************************************************************************)
Var(index) == [type |-> "Var", index |-> index]

Lam(body) == [type |-> "Lam", body |-> body]

App(function, argument) ==
    [type |-> "App", function |-> function, argument |-> argument]

\* How many binders lie between the end of scope and the last occurrence of
\* b in it: 0 for the innermost binder, -1 when b is not in scope.
RECURSIVE Distance(_, _)
Distance(scope, b) ==
    IF scope = <<>> THEN -1
    ELSE IF scope[Len(scope)] = b THEN 0
    ELSE LET d == Distance(SubSeq(scope, 1, Len(scope) - 1), b)
         IN  IF d = -1 THEN -1 ELSE d + 1

\* The de Bruijn term of an Expr: its shape, and for every reference the
\* relative position of its binder.  scope: the Parameters of the
\* enclosing FunctionExprs, outermost first.
RECURSIVE DeBruijn(_, _)
DeBruijn(e, scope) ==
    CASE e.type = "ParameterReference" -> Var(Distance(scope, e.parameter))
      [] e.type = "FunctionExpr" ->
            Lam(DeBruijn(e.body, Append(scope, e.parameter)))
      [] e.type = "ApplyExpr" ->
            App(DeBruijn(e.function, scope), DeBruijn(e.argument, scope))

AlphaEquivalent(a, b) == DeBruijn(a, <<>>) = DeBruijn(b, <<>>)

\* The de Bruijn term a raw tree denotes when every name means the nearest
\* enclosing Function node with that name.
RECURSIVE RawDeBruijn(_, _)
RawDeBruijn(t, scope) ==
    CASE t.type = "Name" -> Var(Distance(scope, t.name))
      [] t.type = "Function" -> Lam(RawDeBruijn(t.body, Append(scope, t.name)))
      [] t.type = "Apply" ->
            App(RawDeBruijn(t.function, scope), RawDeBruijn(t.argument, scope))

\* The names of a raw tree that no enclosing Function node binds.
RECURSIVE FreeNames(_, _)
FreeNames(t, bound) ==
    CASE t.type = "Name" -> IF t.name \in bound THEN {} ELSE {t.name}
      [] t.type = "Function" -> FreeNames(t.body, bound \cup {t.name})
      [] t.type = "Apply" ->
            FreeNames(t.function, bound) \cup FreeNames(t.argument, bound)

Closed(t) == FreeNames(t, {}) = {}

\* The bound names of the Function nodes of a raw tree, in pre-order.
RECURSIVE BinderNames(_)
BinderNames(t) ==
    CASE t.type = "Name" -> <<>>
      [] t.type = "Function" -> << t.name >> \o BinderNames(t.body)
      [] t.type = "Apply" -> BinderNames(t.function) \o BinderNames(t.argument)

\* The display names of the Parameters of the FunctionExprs, in pre-order.
RECURSIVE DisplayNames(_)
DisplayNames(e) ==
    CASE e.type = "ParameterReference" -> <<>>
      [] e.type = "FunctionExpr" -> << e.parameter.name >> \o DisplayNames(e.body)
      [] e.type = "ApplyExpr" ->
            DisplayNames(e.function) \o DisplayNames(e.argument)

\* The Parameters of the FunctionExprs of e.
RECURSIVE BinderParams(_)
BinderParams(e) ==
    CASE e.type = "ParameterReference" -> {}
      [] e.type = "FunctionExpr" -> {e.parameter} \cup BinderParams(e.body)
      [] e.type = "ApplyExpr" ->
            BinderParams(e.function) \cup BinderParams(e.argument)

\* Every Parameter that occurs in e, as a binder or in a reference.
RECURSIVE Params(_)
Params(e) ==
    CASE e.type = "ParameterReference" -> {e.parameter}
      [] e.type = "FunctionExpr" -> {e.parameter} \cup Params(e.body)
      [] e.type = "ApplyExpr" -> Params(e.function) \cup Params(e.argument)

\* body with every reference to parameter replaced by arg, all else as it is.
RECURSIVE Substitute(_, _, _)
Substitute(body, parameter, arg) ==
    CASE body.type = "ParameterReference" ->
            IF body.parameter = parameter THEN arg ELSE body
      [] body.type = "FunctionExpr" ->
            FunctionExpr(body.parameter,
                         Substitute(body.body, parameter, arg))
      [] body.type = "ApplyExpr" ->
            ApplyExpr(Substitute(body.function, parameter, arg),
                      Substitute(body.argument, parameter, arg))

\* The pairs <<p, q>>: p the Parameter of a FunctionExpr of body, q the
\* Parameter of the FunctionExpr at the same place of result.  A place where
\* body has a reference is not entered: there result has the argument or a
\* reference.  A place where the two differ in type gives <<p, p>>.
RECURSIVE CopiedBinders(_, _)
CopiedBinders(body, result) ==
    CASE body.type = "ParameterReference" -> {}
      [] body.type = "FunctionExpr" ->
            IF result.type = "FunctionExpr"
            THEN {<< body.parameter, result.parameter >>}
                 \cup CopiedBinders(body.body, result.body)
            ELSE {<< body.parameter, body.parameter >>}
      [] body.type = "ApplyExpr" ->
            IF result.type = "ApplyExpr"
            THEN CopiedBinders(body.function, result.function)
                 \cup CopiedBinders(body.argument, result.argument)
            ELSE {<< p, p >> : p \in BinderParams(body)}

Range(f) == {f[i] : i \in DOMAIN f}

Encodes(e, bits) == bitstring(e) = Str(bits)
\* The bits of a de Bruijn term: 00 for a function, 01 for an application,
\* index + 1 ones and a zero for a reference.
RECURSIVE Encode(_)
Encode(t) ==
    CASE t.type = "Var" -> repeat("1", t.index + 1) \o "0"
      [] t.type = "Lam" -> "00" \o Encode(t.body)
      [] t.type = "App" -> "01" \o Encode(t.function) \o Encode(t.argument)

(***************************************************************************)
(* Properties of bind, unbind, bitstring and __call__.                     *)
(***************************************************************************)

\* C1: round trip.  For every closed, well-formed Expr e of the session
\* (binders sharing a display name included), unbind(e) returns a raw tree
\* and bind of that tree returns an Expr equal to e under Expr.__eq__: the
\* same class at the root and the same bitstring.
RoundTrip ==
    /\ last.op = "unbind" => ~IsException(last.result)
    /\ last.op = "bind" /\ last.expr /= None =>
            /\ ~IsException(last.result)
            /\ bitstring(last.result).type = "str"
            /\ Expr_eq(last.result, last.expr)

\* A round trip of an Expr in which unbind had to rename: the binder names of
\* the raw tree are not the display names of the Expr.
RoundTripRenamed ==
    /\ last.op = "bind"
    /\ last.expr /= None
    /\ BinderNames(last.ast) /= DisplayNames(last.expr)
    /\ Expr_eq(last.result, last.expr)

SubstitutionCorrect ==
    last.op = "call" =>
        /\ ~IsException(last.result)
        /\ bitstring(last.result) =
              Str(Encode(DeBruijn(
                    Substitute(last.f.body, last.f.parameter, last.arg), <<>>)))
        /\ DeBruijn(last.f, <<>>) = Lam(Var(0)) =>
              Expr_eq(last.result, last.arg)

\* A call of a function whose body is a function that refers to its own
\* parameter and to the parameter of the function called.
SubstitutionUnderBinder ==
    /\ last.op = "call"
    /\ ~IsException(last.result)
    /\ last.f.body.type = "FunctionExpr"
    /\ last.f.body.parameter \in Params(last.f.body.body)
    /\ last.f.parameter \in Params(last.f.body.body)

\* Every binder that f(arg) copies from f.body carries a Parameter allocated
\* by the call, with the display name of the one it copies.
CopiedBindersAreNew ==
    \A pair \in CopiedBinders(last.f.body, last.result) :
        /\ pair[2].id > last.heap
        /\ pair[2].name = pair[1].name

\* C4 as stated: after f(arg), for any f and any arg, no Parameter of a
\* FunctionExpr inside f.body occurs in the result, and every binder copied
\* from the body carries a newly allocated Parameter with the same display
\* name.
IdentityIsolation ==
    last.op = "call" /\ ~IsException(last.result) =>
        /\ BinderParams(last.f.body) \cap Params(last.result) = {}
        /\ CopiedBindersAreNew

\* C4, amended: every binder copied from the body carries a newly allocated
\* Parameter with the same display name, and a Parameter of a FunctionExpr
\* inside f.body occurs in the result only if it occurs in arg, which the
\* result holds as it is.
IdentityIsolationOutsideArgument ==
    last.op = "call" /\ ~IsException(last.result) =>
        /\ BinderParams(last.f.body) \cap Params(last.result) \subseteq
              Params(last.arg)
        /\ CopiedBindersAreNew

\* A call that copies a binder and whose argument holds a binder of f.body.
IsolationWithSharedArgument ==
    /\ last.op = "call"
    /\ ~IsException(last.result)
    /\ CopiedBinders(last.f.body, last.result) /= {}
    /\ BinderParams(last.f.body) \cap Params(last.arg) /= {}

\* C5: bind resolves every name to the Parameter made for the nearest
\* enclosing Function node with that name, inner binders shadowing outer
\* ones, and every Parameter carries the bound name of its node; the bound
\* forms of \x.\x.x and \x.\y.y both have the bitstring 000010.
BindResolvesNearest ==
    last.op = "bind" /\ Closed(last.ast) =>
        /\ ~IsException(last.result)
        /\ DeBruijn(last.result, <<>>) = RawDeBruijn(last.ast, <<>>)
        /\ DisplayNames(last.result) = BinderNames(last.ast)
        /\ last.ast \in {Function("x", Function("x", Name("x"))),
                         Function("x", Function("y", Name("y")))} =>
              Encodes(last.result, "000010")

\* bind of \x.\x.x, where the inner binder shadows the outer one.
BindShadowed ==
    /\ last.op = "bind"
    /\ last.ast = Function("x", Function("x", Name("x")))
    /\ Encodes(last.result, "000010")

\* C6 as stated: bind of a raw tree with a name that no enclosing Function
\* node binds raises an error that identifies the unresolved name.
UnboundNameIdentified ==
    last.op = "bind" /\ ~Closed(last.ast) =>
        /\ IsException(last.result)
        /\ \E name \in FreeNames(last.ast, {}) : name \in Range(last.result.args)

\* C6, amended: bind of such a tree raises ValueError("Failed lookup"), which
\* does not carry the name, and returns no Expr.
UnboundNameRaises ==
    last.op = "bind" /\ ~Closed(last.ast) =>
        /\ last.result = Exception("ValueError", << "Failed lookup" >>)
        /\ exprs = {}

\* bind of (\x.x) x: the binder of x is closed when the last x is met.
UnboundAfterClose ==
    /\ last.op = "bind"
    /\ last.ast = Apply(Function("x", Name("x")), Name("x"))
    /\ IsException(last.result)
(***************************************************************************)
(* Reference notions for the parser: the grammar, as a recognizer of token *)
(* sequences, and the division of a token sequence into atoms.  None of    *)
(* them uses the states and the stacks of SMParser.                        *)
(***************************************************************************)
\* list(tokenize(s)): the tokens, the last one END or the exception raised.
RECURSIVE list_tokens(_)
list_tokens(g) ==
    LET n == tokenize_next(g)
    IN  IF IsException(n.token) \/ n.token.type = END
        THEN << n.token >>
        ELSE << n.token >> \o list_tokens(n.gen)

\* The tokens of s before END.
Lexed(s) ==
    LET tokens == list_tokens(tokenize(s))
    IN  SubSeq(tokens, 1, Len(tokens) - 1)

\* names -> ID | names ID
IsNames(tokens) ==
    /\ tokens /= <<>>
    /\ \A i \in DOMAIN tokens : tokens[i].type = ID

\* atom -> ID | ( completed ) | \ names . completed
\* expr -> atom | expr atom          completed -> expr
RECURSIVE IsAtom(_)
RECURSIVE IsExpr(_)
IsAtom(tokens) ==
    LET n == Len(tokens)
    IN  \/ n = 1 /\ tokens[1].type = ID
        \/ /\ n >= 3
           /\ tokens[1].type = LEFT
           /\ tokens[n].type = RIGHT
           /\ IsExpr(SubSeq(tokens, 2, n - 1))
        \/ /\ n >= 4
           /\ tokens[1].type = SLASH
           /\ \E k \in 3 .. n - 1 :
                /\ tokens[k].type = DOT
                /\ IsNames(SubSeq(tokens, 2, k - 1))
                /\ IsExpr(SubSeq(tokens, k + 1, n))

IsExpr(tokens) ==
    \/ IsAtom(tokens)
    \/ \E k \in 1 .. Len(tokens) - 1 :
            /\ IsAtom(SubSeq(tokens, k + 1, Len(tokens)))
            /\ IsExpr(SubSeq(tokens, 1, k))

\* The token sequence, END included, is a completed followed by END.
Derivable(tokens) ==
    /\ tokens /= <<>>
    /\ ~IsException(tokens[Len(tokens)])
    /\ tokens[Len(tokens)].type = END
    /\ IsExpr(SubSeq(tokens, 1, Len(tokens) - 1))

\* The number of tokens of the atom that tokens starts with: a name, a
\* parenthesis up to the one that closes it, a lambda up to the end.
Depth(tokens, k) ==
    Cardinality({i \in 1 .. k : tokens[i].type = LEFT})
    - Cardinality({i \in 1 .. k : tokens[i].type = RIGHT})

AtomLength(tokens) ==
    CASE tokens[1].type = LEFT ->
            LET closes == {k \in DOMAIN tokens : Depth(tokens, k) = 0}
            IN  IF closes = {}
                THEN Len(tokens)
                ELSE CHOOSE k \in closes : \A j \in closes : k <= j
      [] tokens[1].type = SLASH -> Len(tokens)
      [] OTHER -> 1

\* The atoms written in sequence in tokens.
RECURSIVE Atoms(_)
Atoms(tokens) ==
    IF tokens = <<>>
    THEN <<>>
    ELSE LET n == AtomLength(tokens)
         IN  << SubSeq(tokens, 1, n) >>
                \o Atoms(SubSeq(tokens, n + 1, Len(tokens)))

\* Apply(...Apply(Apply(a1, a2), a3)..., an)
RECURSIVE LeftApply(_)
LeftApply(trees) ==
    IF Len(trees) = 1
    THEN trees[1]
    ELSE Apply(LeftApply(SubSeq(trees, 1, Len(trees) - 1)), trees[Len(trees)])

\* The names and the body of a lambda atom \ names . body
DotAt(atom) == CHOOSE k \in DOMAIN atom :
                    /\ atom[k].type = DOT
                    /\ \A j \in 1 .. k - 1 : atom[j].type /= DOT

LambdaNames(atom) ==
    [i \in 1 .. DotAt(atom) - 2 |-> atom[i + 1].value]

LambdaBody(atom) == SubSeq(atom, DotAt(atom) + 1, Len(atom))

\* The parser has returned a tree.
Accepted == parser.outcome.type = "Return"

\* The outcome of parse, once the parser has returned or raised.
Outcome == parser.outcome

\* C7: for every text over the accepted alphabet, parse returns a tree if
\* and only if the token sequence is derivable from the grammar followed by
\* END, and it raises ParseError, and no other exception, for every other
\* text.
ParseAcceptsGrammar ==
    Outcome /= None =>
        IF Derivable(list_tokens(tokenize(source)))
        THEN Outcome.type = "Return"
        ELSE IsException(Outcome) /\ Outcome.exc = "ParseError"

\* The text ( x ... with no right parenthesis: END is read where the right
\* parenthesis is expected.
ParseRejectsUnclosed ==
    /\ IsException(Outcome)
    /\ Outcome.exc = "ParseError"
    /\ parser.state = SLEFT_COMPLETE
    /\ parser.tokens.tail.at = "done"
\* The trees parse returns for the atoms, each one parsed alone; None for an
\* atom that parse rejects.
Alone(tokens) ==
    LET outcome == parse(Text(tokens))
    IN  IF outcome.type = "Return" THEN outcome.value ELSE None

\* C8: application by juxtaposition is left-associative: for the atoms
\* a1 ... an of an accepted text, parse returns
\* Apply(...Apply(Apply(a1, a2), a3)..., an) of their trees, and for a text
\* ( a1 ... an ) what it returns for a1 ... an.
ApplicationLeftAssociative ==
    Accepted =>
        LET atoms == Atoms(Lexed(source))
            trees == [i \in DOMAIN atoms |-> Alone(atoms[i])]
        IN  /\ \A i \in DOMAIN atoms : trees[i] /= None
            /\ Outcome.value = LeftApply(trees)
            /\ Len(atoms) = 1 /\ atoms[1][1].type = LEFT =>
                  Outcome.value =
                      Alone(SubSeq(atoms[1], 2, Len(atoms[1]) - 1))

\* A text of three atoms or more, one of them in parentheses.
ThreeAtomsApplied ==
    /\ Accepted
    /\ Len(Atoms(Lexed(source))) >= 3
    /\ \E i \in DOMAIN source : source[i] = "("

\* The body of the function that Function(n1, ... Function(nk, body)) nests
\* k deep; None where the tree is no such nest.
RECURSIVE NestedBody(_, _)
NestedBody(tree, k) ==
    IF k = 0 THEN tree
    ELSE IF tree.type /= "Function" THEN None
    ELSE NestedBody(tree.body, k - 1)

\* The names n1 ... nk of such a nest.
RECURSIVE NestedNames(_, _)
NestedNames(tree, k) ==
    IF k = 0 \/ tree.type /= "Function" THEN <<>>
    ELSE << tree.name >> \o NestedNames(tree.body, k - 1)

\* The tokens without the parentheses that enclose them all.
RECURSIVE Enclosed(_)
Enclosed(tokens) ==
    IF tokens /= <<>> /\ tokens[1].type = LEFT
                     /\ AtomLength(tokens) = Len(tokens)
    THEN Enclosed(SubSeq(tokens, 2, Len(tokens) - 1))
    ELSE tokens

\* The last atom of the text, within the parentheses that enclose all of it
\* if there are any, and the tree parse returned for it: the whole tree for
\* a text of one atom, the last operand otherwise.
LastAtom ==
    LET atoms == Atoms(Enclosed(Lexed(source))) IN atoms[Len(atoms)]

LastOperand ==
    IF Len(Atoms(Enclosed(Lexed(source)))) = 1
    THEN Outcome.value
    ELSE IF Outcome.value.type = "Apply" THEN Outcome.value.argument ELSE None

EndsWithLambda == Accepted /\ LastAtom[1].type = SLASH

\* C9: a lambda body is maximal: where an accepted text ends with a lambda
\* \ names . body, at its start, after a left parenthesis or as the last
\* operand of an application, the body of the function returned for the
\* lambda is the tree of all the tokens that follow the dot, up to the right
\* parenthesis or the end of the text; a text that is one lambda gives a
\* Function and never an Apply.
LambdaBodyMaximal ==
    EndsWithLambda =>
        /\ LastOperand /= None
        /\ NestedBody(LastOperand, Len(LambdaNames(LastAtom)))
                = Alone(LambdaBody(LastAtom))
        /\ source[1] = "\\" => Outcome.value.type = "Function"

\* f \x. a b: a lambda as the last operand, its body an application.
LambdaLastOperand ==
    /\ EndsWithLambda
    /\ Len(Atoms(Enclosed(Lexed(source)))) >= 2
    /\ Len(Atoms(LambdaBody(LastAtom))) >= 2

\* The tokens of \n1.\n2. ... \nk. body
RECURSIVE OneNameEach(_, _)
OneNameEach(names, body) ==
    IF names = <<>>
    THEN body
    ELSE << Token(SLASH, None), Token(ID, Head(names)), Token(DOT, None) >>
            \o OneNameEach(Tail(names), body)

\* C10: a lambda \n1 n2 ... nk. body parses to the nested functions
\* Function(n1, Function(n2, ... Function(nk, body))), the names in their
\* source order from the outermost to the innermost, and to what
\* \n1.\n2. ... \nk. body parses to.
LambdaNamesNest ==
    EndsWithLambda =>
        LET names == LambdaNames(LastAtom)
        IN  /\ LastOperand /= None
            /\ NestedNames(LastOperand, Len(names)) = names
            /\ LastOperand = Alone(OneNameEach(names, LambdaBody(LastAtom)))

\* A lambda of two names or more that are not all the same.
LambdaOfSeveralNames ==
    /\ EndsWithLambda
    /\ \E i, j \in DOMAIN LambdaNames(LastAtom) :
            LambdaNames(LastAtom)[i] /= LambdaNames(LastAtom)[j]
(***************************************************************************)
(* Reference notions for the tokenizer: the tokens of a text, read off its *)
(* maximal runs of identifier characters.                                  *)
(***************************************************************************)
\* The position of the first character of s that is no identifier
\* character, punctuation or whitespace; 0 if there is none.
FirstRejected(s) ==
    LET rejected == {i \in DOMAIN s :
                        s[i] \notin IDENTIFIER_CHARACTERS \cup WHITESPACE
                                    \cup DOMAIN SINGLE_TOKEN_CHARS}
    IN  IF rejected = {}
        THEN 0
        ELSE CHOOSE i \in rejected : \A j \in rejected : i <= j

\* The length of the run of identifier characters that s starts with.
RunLength(s) ==
    Cardinality({k \in DOMAIN s :
                    \A j \in 1 .. k : s[j] \in IDENTIFIER_CHARACTERS})

\* One ID token for each maximal run of identifier characters, one token
\* for each punctuation character, nothing for the other characters.
RECURSIVE TokensOfText(_)
TokensOfText(s) ==
    IF s = <<>>
    THEN <<>>
    ELSE IF RunLength(s) > 0
    THEN << Token(ID, join(SubSeq(s, 1, RunLength(s)))) >>
            \o TokensOfText(SubSeq(s, RunLength(s) + 1, Len(s)))
    ELSE IF Head(s) \in {"(", ")", "\\", "."}
    THEN << Token(CASE Head(s) = "(" -> LEFT
                    [] Head(s) = ")" -> RIGHT
                    [] Head(s) = "\\" -> SLASH
                    [] Head(s) = "." -> DOT, None) >>
            \o TokensOfText(Tail(s))
    ELSE TokensOfText(Tail(s))

\* What the calls of next() so far have returned or raised is the start of
\* expected, followed by StopIteration only; and all of expected once the
\* generator has finished.
YieldedIs(expected) ==
    /\ \A i \in DOMAIN yielded :
            yielded[i] = IF i <= Len(expected) THEN expected[i]
                                               ELSE StopIteration
    /\ generator.at = "done" => Len(yielded) >= Len(expected)

\* C11: for a text of identifier characters, punctuation and whitespace,
\* tokenize yields in source order one ID token for each maximal run of
\* identifier characters, with the run as its value, one token for each
\* punctuation character, nothing for whitespace, then one END token, and
\* the generator is exhausted after it.
TokenizeYieldsRuns ==
    FirstRejected(source) = 0 =>
        YieldedIs(TokensOfText(source) \o << Token(END, None) >>)

\* Two identifiers with whitespace between them, read to the end and once
\* more.
TwoIdentifiersYielded ==
    /\ FirstRejected(source) = 0
    /\ Len(yielded) = 4
    /\ yielded[1].type = ID
    /\ yielded[2].type = ID
    /\ yielded[3].type = END
    /\ yielded[4] = StopIteration

\* C12: for a text with a character that tokenize does not accept, it
\* yields the tokens of the text before the first such character, an
\* identifier that the character ends among them, then raises a
\* ParseError whose message names the character; it yields no END token.
TokenizeRaisesAtRejected ==
    FirstRejected(source) > 0 =>
        LET at == FirstRejected(source)
        IN  /\ YieldedIs(TokensOfText(SubSeq(source, 1, at - 1))
                         \o << ParseError(<< "Invalid character in string: ",
                                             source[at] >>) >>)
            /\ \A i \in DOMAIN yielded : yielded[i].type /= END

\* An identifier ended by a rejected character: the identifier is yielded
\* and the next call raises.
IdentifierThenRejected ==
    /\ Len(yielded) = 2
    /\ yielded[1].type = ID
    /\ IsException(yielded[2])
    /\ yielded[2].exc = "ParseError"
    /\ source[FirstRejected(source) - 1] \in IDENTIFIER_CHARACTERS
\* The token types for which a shift state has a transition.
Expected(state) ==
    CASE state \in {SBEGIN, SLEFT, SDOT} ->
            {ID, LEFT, SLASH, ATOM, EXPR, COMPLETE}
      [] state = SEXPR -> {ID, LEFT, SLASH, ATOM}
      [] state = SBEGIN_COMPLETE -> {END}
      [] state = SLEFT_COMPLETE -> {RIGHT}
      [] state = SSLASH -> {ID, NAMES}
      [] state = SSLASH_NAMES -> {ID, DOT}

ShiftStates ==
    {SBEGIN, SLEFT, SDOT, SEXPR, SBEGIN_COMPLETE, SLEFT_COMPLETE, SSLASH,
     SSLASH_NAMES}

\* The parser is in a shift state that has no transition for the token
\* that tokens.next() returns.
Unexpected ==
    /\ parser.outcome = None
    /\ parser.state \in ShiftStates
    /\ LET token == TokenStream_next(parser.tokens).token
       IN  ~IsException(token) /\ token.type \notin Expected(parser.state)

\* C13 as stated: whenever the automaton is in a shift state that has no
\* transition for the next token, parse raises a syntax error that carries
\* the token that was rejected.
SyntaxErrorIdentifiesToken ==
    [][Unexpected =>
          LET token == TokenStream_next(parser.tokens).token
          IN  /\ IsException(parser'.outcome)
              /\ \E i \in DOMAIN parser'.outcome.args :
                    parser'.outcome.args[i] \in {token.type, token.value}
      ]_vars

\* C13, amended: in such a state parse raises ParseError() with no
\* argument, so that the error does not tell which token was rejected; the
\* turn leaves the stacks as they are and is the last one.
SyntaxErrorCarriesNothing ==
    [][Unexpected =>
          /\ parser'.outcome = ParseError(<<>>)
          /\ parser'.state = parser.state
          /\ parser'.state_stack = parser.state_stack
          /\ parser'.value_stack = parser.value_stack
      ]_vars

\* A right parenthesis where a name or the dot of a lambda is expected.
RejectedInLambdaNames ==
    /\ parser.outcome = ParseError(<<>>)
    /\ parser.state = SSLASH_NAMES
    /\ Len(parser.state_stack) >= 2
(***************************************************************************)
(* Properties of the names unbind chooses, of the Parameters of the Exprs  *)
(* made, of flatten and of bitstring.                                      *)
(***************************************************************************)
\* No Function node of the raw tree t has the name of a Function node that
\* encloses it, nor a name of enclosing.
RECURSIVE NoNameTwiceInScope(_, _)
NoNameTwiceInScope(t, enclosing) ==
    CASE t.type = "Name" -> TRUE
      [] t.type = "Apply" ->
            /\ NoNameTwiceInScope(t.function, enclosing)
            /\ NoNameTwiceInScope(t.argument, enclosing)
      [] t.type = "Function" ->
            /\ t.name \notin enclosing
            /\ NoNameTwiceInScope(t.body, enclosing \cup {t.name})

\* C14: in the raw tree that unbind(e) returns for a closed Expr e, the name
\* of a Function node is never the name of a Function node that encloses
\* it, also where nested Parameters share a display name or one display name
\* is a digit-suffixed variant of another.
UnbindNamesDistinct ==
    last.op = "unbind" =>
        /\ ~IsException(last.result)
        /\ NoNameTwiceInScope(last.result, {})

\* unbind of \x.\x0.\x. ... : the inner x can be neither x nor x0.
UnbindVariantInScope ==
    /\ last.op = "unbind"
    /\ last.expr.type = "FunctionExpr"
    /\ last.expr.body.type = "FunctionExpr"
    /\ last.expr.body.body.type = "FunctionExpr"
    /\ SubSeq(DisplayNames(last.expr), 1, 3) = << "x", "x0", "x" >>
    /\ SubSeq(BinderNames(last.result), 1, 3) = << "x", "x0", "x1" >>
\* The FunctionExprs of e: e itself and those inside it.
RECURSIVE FunctionExprs(_)
FunctionExprs(e) ==
    CASE e.type = "ParameterReference" -> {}
      [] e.type = "FunctionExpr" -> {e} \cup FunctionExprs(e.body)
      [] e.type = "ApplyExpr" ->
            FunctionExprs(e.function) \cup FunctionExprs(e.argument)

\* No FunctionExpr of e lies in the body of one with the same Parameter,
\* nor has a Parameter of open.
RECURSIVE NoBinderReopened(_, _)
NoBinderReopened(e, open) ==
    CASE e.type = "ParameterReference" -> TRUE
      [] e.type = "FunctionExpr" ->
            /\ e.parameter \notin open
            /\ NoBinderReopened(e.body, open \cup {e.parameter})
      [] e.type = "ApplyExpr" ->
            /\ NoBinderReopened(e.function, open)
            /\ NoBinderReopened(e.argument, open)

\* The Exprs made: those kept, and the one the last call returned.
Made ==
    exprs \cup (IF last.op \in {"bind", "call"} /\ ~IsException(last.result)
                THEN {last.result}
                ELSE {})

TraversalsIndependent ==
    /\ walked = bind(ast, 0).result
    /\ \A i \in DOMAIN traversals :
            LET alone == flatten(traversals[i].gen.self)
            IN  \A k \in DOMAIN traversals[i].yielded :
                    traversals[i].yielded[k] =
                        IF k <= Len(alone) THEN alone[k] ELSE StopIteration

\* Two generators, one over the Expr and one over an Expr inside it, both
\* between their first event and their last.
TraversalsMidway ==
    /\ Len(traversals) = 2
    /\ traversals[1].gen.self = walked
    /\ traversals[2].gen.self \in Nodes(walked) \ {walked}
    /\ \A i \in {1, 2} :
            /\ Len(traversals[i].yielded) >= 1
            /\ traversals[i].gen.to_do /= <<>>

(***************************************************************************)
(* The bits of bitstring.                                                  *)
(***************************************************************************)
\* C17: bitstring returns exactly the bits of the encoding: in pre-order, 01
\* for every application, 00 for every function, and for every reference
\* index + 1 ones and a zero, index being the number of binders opened
\* between the referenced binder and the reference; closing events add
\* nothing.  So \x.x gives 0010, \x.\y.x gives 0000110 and \x.\y.x y gives
\* 00000111010.
BitstringBitExact ==
    /\ \A e \in Made : bitstring(e) = Str(Encode(DeBruijn(e, <<>>)))
    /\ last.op = "bind" /\ last.expr = None =>
            /\ last.ast = Function("x", Name("x")) =>
                    Encodes(last.result, "0010")
            /\ last.ast = Function("x", Function("y", Name("x"))) =>
                    Encodes(last.result, "0000110")
            /\ last.ast = Function("x", Function("y",
                                Apply(Name("x"), Name("y")))) =>
                    Encodes(last.result, "00000111010")

\* bind has returned the Expr of \x.\y.x y, whose references have the
\* indices 1 and 0.
BitsOfXY ==
    /\ last.op = "bind"
    /\ last.ast = Function("x", Function("y", Apply(Name("x"), Name("y"))))
    /\ DeBruijn(last.result, <<>>) = Lam(Lam(App(Var(1), Var(0))))
    /\ Encodes(last.result, "00000111010")

(***************************************************************************)
(* Application of a FunctionExpr that is not closed.                       *)
(***************************************************************************)
\* The Parameters that e refers to and no FunctionExpr of e binds.
FreeParams(e) == Params(e) \ BinderParams(e)

\* The Parameters of a set, in some order.
Enumerated(S) ==
    CHOOSE scope \in [1 .. Cardinality(S) -> S] : Range(scope) = S

\* C18: f(arg) is defined for every FunctionExpr f of a well-formed Expr, one
\* inside another FunctionExpr included (the inner function of \x.\y.x): it
\* returns an Expr with arg in the place of every reference to f's own
\* parameter, and every reference to a binder that encloses f is kept as a
\* reference to that same Parameter.
CallDefinedOnInnerFunction ==
    last.op = "call_inner" =>
        /\ ~IsException(last.result)
        /\ FreeParams(last.result) = FreeParams(last.f)
        /\ LET scope == Enumerated(FreeParams(last.f))
           IN  DeBruijn(last.result, scope) =
                   DeBruijn(Substitute(last.f.body, last.f.parameter,
                                       last.arg), scope)

(***************************************************************************)
(* The push-back buffer of the token stream.                               *)
(***************************************************************************)
\* C19: the token stream has a single push-back slot: at every turn of the
\* parser's loop, on any text, TokenStream._head holds at most one token,
\* whether a reduction pushed it or a lookahead put it back.
PushBackHoldsOne == Len(parser.tokens.head) <= 1

(***************************************************************************)
(* Termination of the parser.                                              *)
(***************************************************************************)
\* C20: parsing terminates: on every text, SMParser.parse returns or raises
\* after finitely many turns of its loop; no sequence of reductions and
\* push-backs goes on forever.
ParseTerminates == <>(parser.outcome /= None)

\* parse has returned the tree of a lambda, after the reductions of its
\* names, its body and the lambda have each pushed a token back.
ParsedLambda ==
    /\ parser.outcome.type = "Return"
    /\ parser.outcome.value.type = "Function"
    /\ parser.tokens.tail.at = "done"

(***************************************************************************)
(* unbind after bind.                                                      *)
(***************************************************************************)
\* C21: for every closed raw tree t in which no Function node has the name
\* of a Function node that encloses it, unbind(bind(t)) is t: bind keeps the
\* name of each binder as the display name of its Parameter, and unbind
\* tries the display name first, so a name changes only where shadowing
\* forces it.
UnbindOfBindKeepsNames ==
    /\ last.op = "unbind"
    /\ Closed(ast)
    /\ NoNameTwiceInScope(ast, {})
    /\ last.expr = bind(ast, 0).result
    => last.result = ast

\* unbind(bind(t)) has returned t, for a t with a Function node inside a
\* Function node, the inner name a digit-suffixed variant of the outer one.
UnbindOfNestedBinders ==
    /\ last.op = "unbind"
    /\ ast.type = "Function"
    /\ ast.name = "x"
    /\ ast.body.type = "Function"
    /\ ast.body.name = "x0"
    /\ Closed(ast)
    /\ last.expr = bind(ast, 0).result
    /\ last.result = ast

=============================================================================
